---------------------------- MODULE Spec2Model ----------------------------
(***************************************************************************)
(* A model of the hubuum-cli shell core: the filter-suffix extraction, the *)
(* shell-style lexer, the command-tree walk, the CommandTokenizer, the     *)
(* dispatcher and the REPL / batch driver of src/src/main.rs and           *)
(* src/src/tokenizer.rs, the autocomplete providers of                     *)
(* src/src/autocomplete.rs, and the name-or-positional step of the         *)
(* commands of src/src/commands.                                           *)
(*                                                                         *)
(* Text is modelled character by character: a string is a sequence of      *)
(* one-character strings, so that trimming, prefix tests, prefix stripping *)
(* and lexing are computed the way the code computes them.                 *)
(***************************************************************************)
EXTENDS Integers, Sequences, FiniteSets, TLC

(***************************************************************************)
(* Bounds of the model.                                                    *)
(***************************************************************************)
\* The longest line, in words, the user types or the tokenizer is given.
MaxWords == 4
\* The longest batch source, in lines.
MaxFileLines == 2

(***************************************************************************)
(* Text helpers (Rust's str methods used by the code).                     *)
(***************************************************************************)
\* char::is_whitespace for the characters of the model.
IsSpace(ch) == ch \in {" ", "\t", "\n"}

\* str::starts_with / str::strip_prefix's test.
StartsWith(s, p) == Len(s) >= Len(p) /\ SubSeq(s, 1, Len(p)) = p

\* What str::strip_prefix returns when the prefix matches.
StripPrefix(s, p) == SubSeq(s, Len(p) + 1, Len(s))

RECURSIVE TrimStart(_)
\* str::trim_start
TrimStart(s) ==
    IF s # <<>> /\ IsSpace(Head(s)) THEN TrimStart(Tail(s)) ELSE s

RECURSIVE TrimEnd(_)
\* str::trim_end
TrimEnd(s) ==
    IF s # <<>> /\ IsSpace(s[Len(s)]) THEN TrimEnd(SubSeq(s, 1, Len(s) - 1)) ELSE s

\* str::trim
Trim(s) == TrimEnd(TrimStart(s))

RECURSIVE SplitFrom(_, _, _, _)
SplitFrom(s, sep, cur, acc) ==
    IF s = <<>> THEN Append(acc, cur)
    ELSE IF Head(s) = sep THEN SplitFrom(Tail(s), sep, <<>>, Append(acc, cur))
    ELSE SplitFrom(Tail(s), sep, Append(cur, Head(s)), acc)

\* str::split(char): the pieces between the separators (always at least one).
Split(s, sep) == SplitFrom(s, sep, <<>>, <<>>)

RECURSIVE Concat(_, _)
\* [String]::concat: the pieces with nothing between them.
Concat(ws, sep) ==
    IF ws = <<>> THEN <<>> ELSE ws[1] \o Concat(Tail(ws), sep)

RECURSIVE Join(_, _)
\* [String]::join(sep)
Join(ws, sep) ==
    IF ws = <<>> THEN <<>>
    ELSE IF Len(ws) = 1 THEN ws[1]
    ELSE ws[1] \o sep \o Join(Tail(ws), sep)

(***************************************************************************)
(* Results.  An AppError is a record [kind, arg]; Ok is the kind "Ok".     *)
(***************************************************************************)
Ok == [kind |-> "Ok", arg |-> <<>>]
Err(kind, arg) == [kind |-> kind, arg |-> arg]

(***************************************************************************)
(* The lexer: shlex::split, a POSIX-like word splitter.  The states are    *)
(* those of the crate's iterator: between words ("skip"), in a comment,    *)
(* in a word, after a backslash, in single quotes, in double quotes, and   *)
(* after a backslash in double quotes.  A line that ends inside quotes or  *)
(* after a backslash does not lex (split returns None).                    *)
(***************************************************************************)
\* The back quote character, which a TLA+ string cannot hold.
BackQuote == "backquote"

RECURSIVE LexFrom(_, _, _, _, _)
LexFrom(s, i, st, cur, acc) ==
    IF i > Len(s) THEN
        CASE st \in {"skip", "comment"} -> [ok |-> TRUE, words |-> acc]
          [] st = "word" -> [ok |-> TRUE, words |-> Append(acc, cur)]
          [] OTHER -> [ok |-> FALSE, words |-> <<>>]
    ELSE LET ch == s[i] IN
        CASE st = "skip" ->
                IF IsSpace(ch) THEN LexFrom(s, i + 1, "skip", <<>>, acc)
                ELSE IF ch = "#" THEN LexFrom(s, i + 1, "comment", <<>>, acc)
                ELSE LexFrom(s, i, "word", <<>>, acc)
          [] st = "comment" ->
                LexFrom(s, i + 1, IF ch = "\n" THEN "skip" ELSE "comment", <<>>, acc)
          [] st = "word" ->
                IF ch = "\"" THEN LexFrom(s, i + 1, "double", cur, acc)
                ELSE IF ch = "'" THEN LexFrom(s, i + 1, "single", cur, acc)
                ELSE IF ch = "\\" THEN LexFrom(s, i + 1, "escape", cur, acc)
                ELSE IF IsSpace(ch) THEN LexFrom(s, i + 1, "skip", <<>>, Append(acc, cur))
                ELSE LexFrom(s, i + 1, "word", Append(cur, ch), acc)
          [] st = "escape" ->
                LexFrom(s, i + 1, "word", IF ch = "\n" THEN cur ELSE Append(cur, ch), acc)
          [] st = "single" ->
                IF ch = "'" THEN LexFrom(s, i + 1, "word", cur, acc)
                ELSE LexFrom(s, i + 1, "single", Append(cur, ch), acc)
          [] st = "double" ->
                IF ch = "\\" THEN LexFrom(s, i + 1, "descape", cur, acc)
                ELSE IF ch = "\"" THEN LexFrom(s, i + 1, "word", cur, acc)
                ELSE LexFrom(s, i + 1, "double", Append(cur, ch), acc)
          [] OTHER ->
                LexFrom(s, i + 1, "double",
                        IF ch \in {"$", BackQuote, "\"", "\\"} THEN Append(cur, ch)
                        ELSE IF ch = "\n" THEN cur
                        ELSE cur \o <<"\\", ch>>,
                        acc)

\* shlex::split(line): [ok |-> FALSE] is None.
ShlexSplit(line) == LexFrom(line, 1, "skip", <<>>, <<>>)

(***************************************************************************)
(* The output collaborator's filter (src/output.rs is not among the        *)
(* sources; main.rs calls set_filter(pattern, invert)? and clear_filter()?,*)
(* and AppError has RegexError(#[from] regex::Error)).  set_filter is      *)
(* given a pattern the user typed and returns a Result: it installs the    *)
(* filter, or fails with RegexError on a pattern that is no regular        *)
(* expression and leaves the filter as it was.  Of the characters of the   *)
(* model only "(" makes a pattern malformed (a group that is never         *)
(* closed).  clear_filter, add_error, add_warning and flush_output are     *)
(* given nothing that can be malformed and are taken to succeed.           *)
(***************************************************************************)
NoFilter == [active |-> FALSE, pattern |-> <<>>, invert |-> FALSE]

\* Regex::new(pattern).is_ok()
is_regex(pattern) == \A i \in 1..Len(pattern) : pattern[i] # "("

set_filter(filter, pattern, invert) ==
    IF is_regex(pattern)
    THEN [res |-> Ok, filter |-> [active |-> TRUE, pattern |-> pattern, invert |-> invert]]
    ELSE [res |-> Err("RegexError", pattern), filter |-> filter]

clear_filter(filter) == [res |-> Ok, filter |-> NoFilter]

(***************************************************************************)
(* process_filter (main.rs): the text handed on to the lexer, the filter   *)
(* request made, and the filter afterwards.                                *)
(***************************************************************************)
\* process_filter keeping the blanks between "!" and the pattern.
process_filter_untrimmed(line, filter) ==
    LET parts == Split(line, "|") IN
    IF Len(parts) > 1 THEN
        LET f == Trim(parts[2])
            invert == StartsWith(f, <<"!">>)
            pattern == IF invert THEN StripPrefix(f, <<"!">>) ELSE Trim(f)
            set == set_filter(filter, pattern, invert)
        IN  [res |-> set.res,
             text |-> IF set.res = Ok THEN Trim(parts[1]) ELSE <<>>,
             request |-> [set |-> TRUE, pattern |-> pattern, invert |-> invert],
             filter |-> set.filter]
    ELSE
        [res |-> clear_filter(filter).res,
         text |-> line,
         request |-> [set |-> FALSE, pattern |-> <<>>, invert |-> FALSE],
         filter |-> clear_filter(filter).filter]

\* process_filter without the clear_filter of a line that holds no "|".
process_filter_keeping(line, filter) ==
    LET parts == Split(line, "|") IN
    IF Len(parts) > 1 THEN
        LET f == Trim(parts[2])
            invert == StartsWith(f, <<"!">>)
            pattern == IF invert THEN Trim(StripPrefix(f, <<"!">>)) ELSE Trim(f)
            set == set_filter(filter, pattern, invert)
        IN  [res |-> set.res,
             text |-> IF set.res = Ok THEN Trim(parts[1]) ELSE <<>>,
             request |-> [set |-> TRUE, pattern |-> pattern, invert |-> invert],
             filter |-> set.filter]
    ELSE
        [res |-> Ok,
         text |-> line,
         request |-> [set |-> FALSE, pattern |-> <<>>, invert |-> FALSE],
         filter |-> filter]

process_filter(line, filter) ==
    LET parts == Split(line, "|") IN
    IF Len(parts) > 1 THEN
        LET f == Trim(parts[2])
            invert == StartsWith(f, <<"!">>)
            pattern == IF invert THEN Trim(StripPrefix(f, <<"!">>)) ELSE Trim(f)
            set == set_filter(filter, pattern, invert)
        IN  [res |-> set.res,
             text |-> IF set.res = Ok THEN Trim(parts[1]) ELSE <<>>,
             request |-> [set |-> TRUE, pattern |-> pattern, invert |-> invert],
             filter |-> set.filter]
    ELSE
        [res |-> clear_filter(filter).res,
         text |-> line,
         request |-> [set |-> FALSE, pattern |-> <<>>, invert |-> FALSE],
         filter |-> clear_filter(filter).filter]

(***************************************************************************)
(* The command tree (src/commandlist.rs is not among the sources; main.rs  *)
(* uses get_scope and get_command).  A scope is a record of its child      *)
(* scopes, a function from names to scopes, and the names of its commands. *)
(* The tree is the one of the specification's example:                     *)
(*     root -> {scope "ns" -> {command "list"}, command "status"}          *)
(***************************************************************************)
W_ns == <<"n", "s">>
W_list == <<"l", "i", "s", "t">>
W_status == <<"s", "t", "a", "t", "u", "s">>

NoScopes == [n \in {} |-> {}]

cli ==
    [scopes |-> (W_ns :> [scopes |-> NoScopes, commands |-> {W_list}]),
     commands |-> {W_status}]

\* CommandList::get_scope(name).is_some()
has_scope(scope, name) == name \in DOMAIN scope.scopes
\* CommandList::get_scope(name).unwrap()
get_scope(scope, name) == scope.scopes[name]
\* CommandList::get_command(name).is_some()
has_command(scope, name) == name \in scope.commands

(***************************************************************************)
(* find_command (main.rs): the walk over the words of the line.  The       *)
(* result holds the context pushed so far, whether a command was reached,  *)
(* and its name.                                                           *)
(***************************************************************************)
RECURSIVE find_from(_, _, _)
\* find_command descending into a scope without pushing its name.
find_from_no_push(current_scope, parts, context) ==
    IF parts = <<>> THEN
        [res |-> Ok, context |-> context, found |-> FALSE, cmd_name |-> <<>>]
    ELSE LET part == Head(parts) IN
        IF has_scope(current_scope, part) THEN
            find_from(get_scope(current_scope, part), Tail(parts), context)
        ELSE IF has_command(current_scope, part) THEN
            [res |-> Ok, context |-> context, found |-> TRUE, cmd_name |-> part]
        ELSE
            [res |-> Err("CommandNotFound", part), context |-> context,
             found |-> FALSE, cmd_name |-> <<>>]

\* find_command passing over a word that names nothing.
find_from_skipping_unknown(current_scope, parts, context) ==
    IF parts = <<>> THEN
        [res |-> Ok, context |-> context, found |-> FALSE, cmd_name |-> <<>>]
    ELSE LET part == Head(parts) IN
        IF has_scope(current_scope, part) THEN
            find_from(get_scope(current_scope, part), Tail(parts), Append(context, part))
        ELSE IF has_command(current_scope, part) THEN
            [res |-> Ok, context |-> context, found |-> TRUE, cmd_name |-> part]
        ELSE
            find_from(current_scope, Tail(parts), context)

find_from(current_scope, parts, context) ==
    IF parts = <<>> THEN
        [res |-> Ok, context |-> context, found |-> FALSE, cmd_name |-> <<>>]
    ELSE LET part == Head(parts) IN
        IF has_scope(current_scope, part) THEN
            find_from(get_scope(current_scope, part), Tail(parts), Append(context, part))
        ELSE IF has_command(current_scope, part) THEN
            [res |-> Ok, context |-> context, found |-> TRUE, cmd_name |-> part]
        ELSE
            [res |-> Err("CommandNotFound", part), context |-> context,
             found |-> FALSE, cmd_name |-> <<>>]

find_command(tree, parts) == find_from(tree, parts, <<>>)

(***************************************************************************)
(* The world outside the process that option values can refer to: what     *)
(* reading the file at a path gives, and what a GET of a URL gives.        *)
(*   file: [ok |-> FALSE] (missing or unreadable) or the file's text;      *)
(*   http: transport failure, or a response with a status and a body.      *)
(***************************************************************************)
P_http == <<"h", "t", "t", "p", ":", "/", "/">>
P_https == <<"h", "t", "t", "p", "s", ":", "/", "/">>
P_file == <<"f", "i", "l", "e", ":", "/", "/">>

FileResults ==
    { [ok |-> FALSE, text |-> <<>>],
      [ok |-> TRUE, text |-> <<"h", "i", "\n">>],
      [ok |-> TRUE, text |-> <<" ", "h", " ", "i", " ", "\n">>] }

HttpResults ==
    { [ok |-> FALSE, status |-> 0, text |-> <<>>],
      [ok |-> TRUE, status |-> 200, text |-> <<"o", "k", "\n">>],
      [ok |-> TRUE, status |-> 404, text |-> <<"n", "o", "\n">>] }

Envs == [file : FileResults, http : HttpResults]

(***************************************************************************)
(* CommandTokenizer::convert_file_and_http_values (tokenizer.rs).          *)
(***************************************************************************)
\* convert_file_and_http_values taking `file:/` for the file prefix.
convert_any_file_prefix(value, env) ==
    IF StartsWith(value, P_http) \/ StartsWith(value, P_https) THEN
        IF env.http.ok
        THEN [res |-> Ok, value |-> TrimEnd(env.http.text)]
        ELSE [res |-> Err("HttpError", value), value |-> <<>>]
    ELSE IF StartsWith(value, <<"f", "i", "l", "e", ":", "/">>) THEN
        IF env.file.ok
        THEN [res |-> Ok, value |-> TrimEnd(env.file.text)]
        ELSE [res |-> Err("IoError", StripPrefix(value, P_file)), value |-> <<>>]
    ELSE [res |-> Ok, value |-> value]

\* convert_file_and_http_values trimming the text read at both ends.
convert_trimming_both_ends(value, env) ==
    IF StartsWith(value, P_http) \/ StartsWith(value, P_https) THEN
        IF env.http.ok
        THEN [res |-> Ok, value |-> Trim(env.http.text)]
        ELSE [res |-> Err("HttpError", value), value |-> <<>>]
    ELSE IF StartsWith(value, P_file) THEN
        IF env.file.ok
        THEN [res |-> Ok, value |-> Trim(env.file.text)]
        ELSE [res |-> Err("IoError", StripPrefix(value, P_file)), value |-> <<>>]
    ELSE [res |-> Ok, value |-> value]

convert_file_and_http_values(value, env) ==
    IF StartsWith(value, P_http) \/ StartsWith(value, P_https) THEN
        IF env.http.ok
        THEN [res |-> Ok, value |-> TrimEnd(env.http.text)]
        ELSE [res |-> Err("HttpError", value), value |-> <<>>]
    ELSE IF StartsWith(value, P_file) THEN
        IF env.file.ok
        THEN [res |-> Ok, value |-> TrimEnd(env.file.text)]
        ELSE [res |-> Err("IoError", StripPrefix(value, P_file)), value |-> <<>>]
    ELSE [res |-> Ok, value |-> value]

(***************************************************************************)
(* The OptionMap: HashMap<String, String>.                                 *)
(***************************************************************************)
NoOptions == [k \in {} |-> <<>>]

\* HashMap::insert: the value of a key already present is replaced.
insert(options, key, value) ==
    [k \in (DOMAIN options) \cup {key} |-> IF k = key THEN value ELSE options[k]]

\* HashMap::contains_key
contains_key(options, key) == key \in DOMAIN options

(***************************************************************************)
(* CommandTokenizer::parse_options (tokenizer.rs): `rest` is what the      *)
(* iterator still holds after `key`.                                       *)
(***************************************************************************)
\* parse_options refusing a key that no word follows.
parse_options_value_required(options, key, rest, env) ==
    LET value == IF rest = <<>> THEN <<>> ELSE Head(rest)
        after == IF rest = <<>> THEN <<>> ELSE Tail(rest)
        conv == convert_file_and_http_values(value, env)
        store(stripped) ==
            IF rest = <<>>
            THEN [res |-> Err("MissingOptions", stripped), options |-> options,
                  rest |-> after]
            ELSE IF conv.res = Ok
            THEN [res |-> Ok, options |-> insert(options, stripped, conv.value),
                  rest |-> after]
            ELSE [res |-> conv.res, options |-> options, rest |-> after]
    IN  IF StartsWith(key, <<"-", "-">>) THEN store(StripPrefix(key, <<"-", "-">>))
        ELSE IF StartsWith(key, <<"-">>) THEN store(StripPrefix(key, <<"-">>))
        ELSE [res |-> Err("InvalidInput", <<>>), options |-> options, rest |-> rest]

parse_options(options, key, rest, env) ==
    LET value == IF rest = <<>> THEN <<>> ELSE Head(rest)
        after == IF rest = <<>> THEN <<>> ELSE Tail(rest)
        conv == convert_file_and_http_values(value, env)
        store(stripped) ==
            IF conv.res = Ok
            THEN [res |-> Ok, options |-> insert(options, stripped, conv.value),
                  rest |-> after]
            ELSE [res |-> conv.res, options |-> options, rest |-> after]
    IN  IF StartsWith(key, <<"-", "-">>) THEN store(StripPrefix(key, <<"-", "-">>))
        ELSE IF StartsWith(key, <<"-">>) THEN store(StripPrefix(key, <<"-">>))
        ELSE [res |-> Err("InvalidInput", <<>>), options |-> options, rest |-> rest]

(***************************************************************************)
(* CommandTokenizer::new (tokenizer.rs).  A tokenizer is the record of its *)
(* four fields; tokenize_failed is what a caller holds after an Err.       *)
(***************************************************************************)
NoTokens ==
    [scopes |-> <<>>, command |-> <<>>, options |-> NoOptions, positionals |-> <<>>]

tokenize_failed(e) == [res |-> e, tokens |-> NoTokens]

RECURSIVE remaining_options(_, _, _)
\* The second loop: every remaining word is handed to parse_options.
remaining_options(tokenizer, rest, env) ==
    IF rest = <<>> THEN [res |-> Ok, tokens |-> tokenizer]
    ELSE LET p == parse_options(tokenizer.options, Head(rest), Tail(rest), env) IN
        IF p.res # Ok THEN tokenize_failed(p.res)
        ELSE remaining_options([tokenizer EXCEPT !.options = p.options], p.rest, env)

RECURSIVE scopes_and_command(_, _, _, _)
\* The first loop without the test that the command word was seen.
scopes_and_command_any_option(tokenizer, rest, cmd_name, env) ==
    IF rest = <<>> THEN [res |-> Ok, tokens |-> tokenizer]
    ELSE LET token == Head(rest) IN
        IF token = cmd_name THEN
            scopes_and_command([tokenizer EXCEPT !.command = token],
                               Tail(rest), cmd_name, env)
        ELSE IF StartsWith(token, <<"-">>) THEN
            LET p == parse_options(tokenizer.options, token, Tail(rest), env) IN
                IF p.res # Ok THEN tokenize_failed(p.res)
                ELSE remaining_options([tokenizer EXCEPT !.options = p.options],
                                       p.rest, env)
        ELSE IF tokenizer.command = <<>> THEN
            scopes_and_command([tokenizer EXCEPT !.scopes = Append(@, token)],
                               Tail(rest), cmd_name, env)
        ELSE
            scopes_and_command([tokenizer EXCEPT !.positionals = Append(@, token)],
                               Tail(rest), cmd_name, env)

\* The first loop dereferencing the positionals too.
scopes_and_command_deref_positionals(tokenizer, rest, cmd_name, env) ==
    IF rest = <<>> THEN [res |-> Ok, tokens |-> tokenizer]
    ELSE LET token == Head(rest) IN
        IF token = cmd_name THEN
            scopes_and_command([tokenizer EXCEPT !.command = token],
                               Tail(rest), cmd_name, env)
        ELSE IF StartsWith(token, <<"-">>) THEN
            IF tokenizer.command = <<>> THEN tokenize_failed(Err("InvalidInput", <<>>))
            ELSE LET p == parse_options(tokenizer.options, token, Tail(rest), env) IN
                IF p.res # Ok THEN tokenize_failed(p.res)
                ELSE remaining_options([tokenizer EXCEPT !.options = p.options],
                                       p.rest, env)
        ELSE IF tokenizer.command = <<>> THEN
            scopes_and_command([tokenizer EXCEPT !.scopes = Append(@, token)],
                               Tail(rest), cmd_name, env)
        ELSE LET cv == convert_file_and_http_values(token, env) IN
            IF cv.res # Ok THEN tokenize_failed(cv.res)
            ELSE scopes_and_command([tokenizer EXCEPT !.positionals = Append(@, cv.value)],
                                    Tail(rest), cmd_name, env)

\* The first loop: scopes, the command word, positionals, the first option.
scopes_and_command(tokenizer, rest, cmd_name, env) ==
    IF rest = <<>> THEN [res |-> Ok, tokens |-> tokenizer]
    ELSE LET token == Head(rest) IN
        IF token = cmd_name THEN
            scopes_and_command([tokenizer EXCEPT !.command = token],
                               Tail(rest), cmd_name, env)
        ELSE IF StartsWith(token, <<"-">>) THEN
            IF tokenizer.command = <<>> THEN tokenize_failed(Err("InvalidInput", <<>>))
            ELSE LET p == parse_options(tokenizer.options, token, Tail(rest), env) IN
                IF p.res # Ok THEN tokenize_failed(p.res)
                ELSE remaining_options([tokenizer EXCEPT !.options = p.options],
                                       p.rest, env)
        ELSE IF tokenizer.command = <<>> THEN
            scopes_and_command([tokenizer EXCEPT !.scopes = Append(@, token)],
                               Tail(rest), cmd_name, env)
        ELSE
            scopes_and_command([tokenizer EXCEPT !.positionals = Append(@, token)],
                               Tail(rest), cmd_name, env)

CommandTokenizer_new(input, cmd_name, env) ==
    LET lexed == ShlexSplit(input) IN
    IF ~lexed.ok THEN tokenize_failed(Err("InvalidInput", <<>>))
    ELSE scopes_and_command(NoTokens, lexed.words, cmd_name, env)

(***************************************************************************)
(* What a command's execute returns (the commands and the remote API are   *)
(* outside the core): success or one of the errors process_line_as_command *)
(* tells apart.                                                            *)
(***************************************************************************)
ExecResults ==
    { Ok, Err("Quiet", <<>>), Err("EntityNotFound", <<>>),
      Err("ApiErrorHttpWithBody", <<>>), Err("ApiError", <<>>),
      Err("MissingOptions", <<>>) }

K_help == <<"h", "e", "l", "p">>
K_h == <<"h">>

(***************************************************************************)
(* execute_command (main.rs): tokenizes the line with the command name the *)
(* walk found, then calls the command's help or its execute.               *)
(***************************************************************************)
\* execute_command without the `?` on CommandTokenizer::new.
help_or_execute_unchecked(t, exec_result) ==
    IF contains_key(t.tokens.options, K_help) \/ contains_key(t.tokens.options, K_h)
    THEN [res |-> Ok, call |-> "help", tokens |-> t.tokens]
    ELSE [res |-> exec_result, call |-> "execute", tokens |-> t.tokens]

\* The part of execute_command after CommandTokenizer::new returned t.
help_or_execute(t, exec_result) ==
    IF t.res # Ok THEN [res |-> t.res, call |-> "none", tokens |-> NoTokens]
    ELSE IF contains_key(t.tokens.options, K_help) \/ contains_key(t.tokens.options, K_h)
    THEN [res |-> Ok, call |-> "help", tokens |-> t.tokens]
    ELSE [res |-> exec_result, call |-> "execute", tokens |-> t.tokens]

execute_command(cmd_name, line, env, exec_result) ==
    help_or_execute(CommandTokenizer_new(line, cmd_name, env), exec_result)

(***************************************************************************)
(* handle_command (main.rs).  `walked` is whether find_command ran;        *)
(* `messages` are the messages added to the output buffer.                 *)
(***************************************************************************)
Message(level, kind, arg) == [level |-> level, kind |-> kind, arg |-> arg]

NotHandled ==
    [res |-> Ok, walked |-> FALSE, context |-> <<>>, found |-> FALSE,
     cmd_name |-> <<>>, call |-> "none", tokens |-> NoTokens, messages |-> <<>>]

\* The part of handle_command after execute_command returned e.
executed(f, e) ==
    [NotHandled EXCEPT !.res = e.res, !.walked = TRUE, !.context = f.context,
                       !.found = TRUE, !.cmd_name = f.cmd_name,
                       !.call = e.call, !.tokens = e.tokens]

\* The part of handle_command after find_command returned f.
found_or_not(parts, line, f, env, exec_result) ==
    IF f.res # Ok THEN
        [NotHandled EXCEPT !.res = f.res, !.walked = TRUE, !.context = f.context]
    ELSE IF f.found THEN
        executed(f, execute_command(f.cmd_name, line, env, exec_result))
    ELSE
        [NotHandled EXCEPT !.walked = TRUE, !.context = f.context,
                           !.messages = <<Message("warning", "CommandNotFound",
                                                  Join(parts, <<" ">>))>>]

\* handle_command without the early return on an empty word list.
walk_and_run_empty_too(tree, line, lexed, env, exec_result) ==
    IF ~lexed.ok THEN [NotHandled EXCEPT !.res = Err("ParseError", <<>>)]
    ELSE found_or_not(lexed.words, line, find_command(tree, lexed.words),
                      env, exec_result)

\* The part of handle_command after shlex::split returned lexed.
walk_and_run(tree, line, lexed, env, exec_result) ==
    IF ~lexed.ok THEN [NotHandled EXCEPT !.res = Err("ParseError", <<>>)]
    ELSE IF lexed.words = <<>> THEN NotHandled
    ELSE found_or_not(lexed.words, line, find_command(tree, lexed.words),
                      env, exec_result)

handle_command(tree, line, env, exec_result) ==
    walk_and_run(tree, line, ShlexSplit(line), env, exec_result)

(***************************************************************************)
(* process_line_as_command (main.rs): the outcome of one line.             *)
(*   res       what the function returns to its caller                     *)
(*   handed    whether a text was handed to handle_command, and the text   *)
(*   request   the filter request process_filter made                      *)
(*   messages  the messages the line added to the output buffer            *)
(*   flushed   whether flush_output was reached                            *)
(***************************************************************************)
\* The arms of the match on handle_command's result.
report(res) ==
    IF res.kind \in {"Ok", "Quiet"} THEN <<>>
    ELSE IF res.kind = "EntityNotFound" THEN <<Message("warning", res.kind, res.arg)>>
    ELSE <<Message("error", res.kind, res.arg)>>

\* `process_filter(line)?` returned the error of p.
filter_failed(line, p) ==
    [line |-> line, res |-> p.res, filter |-> p.filter, request |-> p.request,
     handed |-> FALSE, text |-> <<>>, walked |-> FALSE, context |-> <<>>,
     found |-> FALSE, cmd_name |-> <<>>, call |-> "none", tokens |-> NoTokens,
     messages |-> <<>>, flushed |-> FALSE]

\* handle_command returned h: its error is reported and the output flushed.
handled(line, p, h) ==
    [line |-> line, res |-> Ok, filter |-> p.filter, request |-> p.request,
     handed |-> TRUE, text |-> p.text, walked |-> h.walked, context |-> h.context,
     found |-> h.found, cmd_name |-> h.cmd_name, call |-> h.call,
     tokens |-> h.tokens, messages |-> h.messages \o report(h.res),
     flushed |-> TRUE]

\* The part of process_line_as_command after process_filter returned p.
filtered(tree, line, p, env, exec_result) ==
    IF p.res # Ok THEN filter_failed(line, p)
    ELSE handled(line, p, handle_command(tree, p.text, env, exec_result))

process_line_as_command(tree, line, filter, env, exec_result) ==
    filtered(tree, line, process_filter(line, filter), env, exec_result)

\* The outcome record before any line was processed.
NoLine ==
    [line |-> <<>>, res |-> Ok, filter |-> NoFilter,
     request |-> [set |-> FALSE, pattern |-> <<>>, invert |-> FALSE],
     handed |-> FALSE, text |-> <<>>, walked |-> FALSE, context |-> <<>>,
     found |-> FALSE, cmd_name |-> <<>>, call |-> "none", tokens |-> NoTokens,
     messages |-> <<>>, flushed |-> FALSE]

(***************************************************************************)
(* The inputs: the lines a user types and the lines of a batch source.     *)
(***************************************************************************)
W_x == <<"x">>
O_n == <<"-", "n">>
O_h == <<"-", "h">>
O_help == <<"-", "-", "h", "e", "l", "p">>
O_dash == <<"-">>
O_ddash == <<"-", "-">>

Words == {W_ns, W_list, W_status, W_x, O_n, O_h, O_help, O_dash, O_ddash}

WordSeqs == UNION {[1..k -> Words] : k \in 0..MaxWords}

\* What stands before and after the words of a typed line: nothing, blanks,
\* a filter suffix, an inverted filter suffix, a filter suffix that is no
\* regular expression, an unbalanced quote.
Decorations ==
    { <<<<>>, <<>>>>,
      <<<<" ">>, <<" ", " ">>>>,
      <<<<>>, <<" ", "|", " ", "x">>>>,
      <<<<>>, <<"|", " ", "!", " ", "x", " ">>>>,
      <<<<>>, <<" ", "|", " ", "(">>>>,
      <<<<>>, <<" ", "'">>>> }

\* The words of typed lines: those of Words but the bare "-" and "--".
LineWords == Words \ {O_dash, O_ddash}

LineWordSeqs == UNION {[1..k -> LineWords] : k \in 0..MaxWords}

W_bogus == <<"b", "o", "g", "u", "s">>
W_error == <<"e", "r", "r", "o", "r">>

\* A line with text after its filter suffix, and a line with a `|` inside a
\* quoted option value.
L_two_pipes == W_list \o <<" ", "|", " ", "x", " ", "|", " ", "x">>
L_quoted_pipe == W_list \o <<" ">> \o O_n \o <<" ", "'", "x", "|", "x", "'">>

\* Lines whose option value is read from a file and fetched from a URL.
L_file_value == W_status \o <<" ">> \o O_n \o <<" ">> \o P_file \o <<"p">>
L_http_value == W_status \o <<" ">> \o O_n \o <<" ">> \o P_http \o <<"u">>

\* The typed lines: the decorated word sequences, an unknown word, the
\* specification's `list | !error`, and the four lines above.
Lines ==
    {d[1] \o Join(ws, <<" ">>) \o d[2] : ws \in LineWordSeqs, d \in Decorations}
        \cup {W_bogus, W_list \o <<" ", "|", " ", "!">> \o W_error,
              L_two_pipes, L_quoted_pipe, L_file_value, L_http_value}

\* The lines a batch source holds, the --command argument, and the lines
\* typed in a session: a command, a scoped command, a scope alone, an unknown
\* word, a help request, filter suffixes (the last one no regular
\* expression), a dangling option, an unbalanced quote, an empty line.
FileLines ==
    { W_status,
      W_ns \o <<" ">> \o W_list,
      W_ns,
      W_x,
      W_status \o <<" ">> \o O_h,
      W_status \o <<" ", "|", " ", "x">>,
      W_x \o <<" ", "|", "!", "x">>,
      W_status \o <<" ", "|", " ", "(">>,
      W_status \o <<" ">> \o O_n,
      <<"'">>,
      <<>> }

BatchFiles == UNION {[1..k -> FileLines] : k \in 0..MaxFileLines}

\* A line that holds no ":" holds no dereference prefix: tokenizing it reads
\* no file and fetches nothing, whatever the world holds.
EnvsFor(line) ==
    IF \E i \in 1..Len(line) : line[i] = ":" THEN Envs
    ELSE {[file |-> [ok |-> FALSE, text |-> <<>>],
           http |-> [ok |-> FALSE, status |-> 0, text |-> <<>>]]}

(***************************************************************************)
(* The state of the process, from the construction of the command tree     *)
(* (main.rs, line 243) on.                                                 *)
(***************************************************************************)
VARIABLES
    mode,       \* "command" (--command), "source" (--source) or "interactive"
    pc,         \* where main stands
    exit,       \* "running", "success" (main returned Ok) or "failure" (Err)
    fatal,      \* the step whose error main returned, "none" otherwise
    file,       \* the lines of the batch source
    processed,  \* the numbers of the batch lines processed, in order
    filter,     \* the output collaborator's filter
    last,       \* the outcome of the line processed last
    typed,      \* LineSpec: the line given to process_line_as_command
    tok_in,     \* TokSpec: the (input, cmd_name) given to CommandTokenizer::new
    tok_out,    \* TokSpec: its result, [done |-> FALSE] before the call
    calls,      \* DerefSpec: the calls of CommandTokenizer::new made so far
    relex,      \* LexSpec: the words of the line, and of the words joined
    walk,       \* WalkSpec: the tree and the words given to find_command, its result
    comp,       \* CompleteSpec: the call of an autocomplete provider, its result
    named       \* NameSpec: the hydrated query and the tokens of a command, its result

vars ==
    <<mode, pc, exit, fatal, file, processed, filter, last, typed, tok_in, tok_out,
      calls, relex, walk, comp, named>>

NoTokIn == [input |-> <<>>, cmd_name |-> <<>>]
NoTokOut == [done |-> FALSE, res |-> Ok, tokens |-> NoTokens]
NoLex == [ok |-> TRUE, words |-> <<>>]
NoRelex == [done |-> FALSE, first |-> NoLex, again |-> NoLex]
NoWalk ==
    [done |-> FALSE, tree |-> cli, parts |-> <<>>, res |-> Ok, context |-> <<>>,
     found |-> FALSE, cmd_name |-> <<>>]

\* A call of an autocomplete provider: the arguments, the world's answers, the remote calls
\* issued and what was returned.
NoCompletion ==
    [done |-> FALSE, provider |-> "none", prefix |-> <<>>, parts |-> <<>>,
     world |-> [list |-> [ok |-> FALSE, names |-> <<>>],
                lookup |-> [ok |-> FALSE, count |-> 0]],
     queries |-> <<>>, candidates |-> <<>>]
\* A command's execute up to the name it works on: the name and class
\* fields of the query made from the tokens, the positionals, and the
\* name and result the command went on with.  An Option is a sequence of
\* at most one element.
NoNamed ==
    [done |-> FALSE, command |-> "none", name |-> <<>>, class |-> <<>>,
     positionals |-> <<>>, res |-> Ok, resolved |-> <<>>]

Init ==
    /\ mode \in {"command", "source", "interactive"}
    /\ pc = "create_editor"
    /\ exit = "running"
    /\ fatal = "none"
    /\ file \in (IF mode = "source" THEN BatchFiles ELSE {<<>>})
    /\ processed = <<>>
    /\ filter = NoFilter
    /\ last = NoLine
    /\ typed = <<>>
    /\ tok_in = NoTokIn
    /\ tok_out = NoTokOut
    /\ calls = <<>>
    /\ relex = NoRelex
    /\ walk = NoWalk
    /\ comp = NoCompletion
    /\ named = NoNamed

\* main returns Err from `step`.
Fail(step) ==
    /\ pc' = "done"
    /\ exit' = "failure"
    /\ fatal' = step

\* process_line_as_command returned r: main goes on at `after`, or returns
\* the error.
Returned(r, after) ==
    /\ last' = r
    /\ filter' = r.filter
    /\ IF r.res = Ok
       THEN /\ pc' = after
            /\ exit' = (IF after = "done" THEN "success" ELSE exit)
            /\ fatal' = fatal
       ELSE Fail("process_line")

\* One call of process_line_as_command(cli, line, client)? in main or in
\* source_commands_from_file; `after` is where main goes on when it returns Ok.
ProcessLine(line, after) ==
    \E env \in EnvsFor(line), exec_result \in ExecResults :
        Returned(process_line_as_command(cli, line, filter, env, exec_result),
                 after)

\* create_editor(&cli)?  (main.rs, line 244)
CreateEditor ==
    /\ pc = "create_editor"
    /\ pc' = mode
    /\ UNCHANGED <<mode, exit, fatal, file, processed, filter, last, typed, tok_in, tok_out, calls, relex, walk, comp, named>>

CreateEditorFails ==
    /\ pc = "create_editor"
    /\ Fail("create_editor")
    /\ UNCHANGED <<mode, file, processed, filter, last, typed, tok_in, tok_out, calls, relex, walk, comp, named>>

\* --command: one line is processed and main returns (main.rs, lines 246-249).
RunCommand ==
    /\ pc = "command"
    /\ \E line \in FileLines : ProcessLine(line, "done")
    /\ UNCHANGED <<mode, file, processed, typed, tok_in, tok_out, calls, relex, walk, comp, named>>

\* --source: File::open(filename)?  (main.rs, line 206)
OpenSource ==
    /\ pc = "source"
    /\ pc' = "batch"
    /\ UNCHANGED <<mode, exit, fatal, file, processed, filter, last, typed, tok_in, tok_out, calls, relex, walk, comp, named>>

OpenSourceFails ==
    /\ pc = "source"
    /\ Fail("open_source")
    /\ UNCHANGED <<mode, file, processed, filter, last, typed, tok_in, tok_out, calls, relex, walk, comp, named>>

\* One turn of `for line in reader.lines()` (main.rs, lines 208-211).
BatchLine ==
    /\ pc = "batch"
    /\ Len(processed) < Len(file)
    /\ ProcessLine(file[Len(processed) + 1], "batch")
    /\ processed' = Append(processed, Len(processed) + 1)
    /\ UNCHANGED <<mode, file, typed, tok_in, tok_out, calls, relex, walk, comp, named>>

\* `let line = line?` fails: an I/O error reading the source.
BatchReadFails ==
    /\ pc = "batch"
    /\ Len(processed) < Len(file)
    /\ Fail("read_source")
    /\ UNCHANGED <<mode, file, processed, filter, last, typed, tok_in, tok_out, calls, relex, walk, comp, named>>

\* The source is exhausted: source_commands_from_file and main return Ok.
BatchEnd ==
    /\ pc = "batch"
    /\ Len(processed) = Len(file)
    /\ pc' = "done"
    /\ exit' = "success"
    /\ UNCHANGED <<mode, fatal, file, processed, filter, last, typed, tok_in, tok_out, calls, relex, walk, comp, named>>

\* The interactive loop: readline returns Ok(line), the history is updated
\* and saved, the line is processed (main.rs, lines 258-262).
ReadLine ==
    /\ pc = "interactive"
    /\ \E line \in FileLines : ProcessLine(line, "interactive")
    /\ UNCHANGED <<mode, file, processed, typed, tok_in, tok_out, calls, relex, walk, comp, named>>

\* add_history_entry or save_history fails (main.rs, lines 259-260).
HistoryFails ==
    /\ pc = "interactive"
    /\ Fail("history")
    /\ UNCHANGED <<mode, file, processed, filter, last, typed, tok_in, tok_out, calls, relex, walk, comp, named>>

\* ReadlineError::Interrupted: the loop continues (main.rs, line 263).
Interrupted ==
    /\ pc = "interactive"
    /\ UNCHANGED vars

\* ReadlineError::Eof: the loop ends and main returns Ok (main.rs, line 264).
Eof ==
    /\ pc = "interactive"
    /\ pc' = "done"
    /\ exit' = "success"
    /\ UNCHANGED <<mode, fatal, file, processed, filter, last, typed, tok_in, tok_out, calls, relex, walk, comp, named>>

\* Any other readline error is returned by main (main.rs, line 265).
ReadlineFails ==
    /\ pc = "interactive"
    /\ Fail("readline")
    /\ UNCHANGED <<mode, file, processed, filter, last, typed, tok_in, tok_out, calls, relex, walk, comp, named>>

Next ==
    \/ CreateEditor
    \/ CreateEditorFails
    \/ RunCommand
    \/ OpenSource
    \/ OpenSourceFails
    \/ BatchLine
    \/ BatchReadFails
    \/ BatchEnd
    \/ ReadLine
    \/ HistoryFails
    \/ Interrupted
    \/ Eof
    \/ ReadlineFails

Spec == Init /\ [][Next]_vars

(***************************************************************************)
(* LineSpec: process_line_as_command as a function of the line.  Init      *)
(* draws the line typed and the filter the line before left behind; the    *)
(* one action processes the line.                                          *)
(***************************************************************************)
OldFilter == [active |-> TRUE, pattern |-> <<"o">>, invert |-> TRUE]

LineInit ==
    /\ mode = "interactive"
    /\ pc = "interactive"
    /\ exit = "running"
    /\ fatal = "none"
    /\ file = <<>>
    /\ processed = <<>>
    /\ filter \in {NoFilter, OldFilter}
    /\ last = NoLine
    /\ typed \in Lines
    /\ tok_in = NoTokIn
    /\ tok_out = NoTokOut
    /\ calls = <<>>
    /\ relex = NoRelex
    /\ walk = NoWalk
    /\ comp = NoCompletion
    /\ named = NoNamed

Dispatch ==
    /\ pc = "interactive"
    /\ ProcessLine(typed, "dispatched")
    /\ UNCHANGED <<mode, file, processed, typed, tok_in, tok_out, calls, relex, walk, comp, named>>

LineNext == Dispatch

LineSpec == LineInit /\ [][LineNext]_vars

(***************************************************************************)
(* TokSpec: CommandTokenizer::new as a function of its arguments.  Init    *)
(* draws the input and the command name; the one action builds the         *)
(* tokenizer.                                                              *)
(***************************************************************************)
TokInputs ==
    {[input |-> Join(ws, <<" ">>), cmd_name |-> c] :
        ws \in WordSeqs, c \in {W_list, W_status}}

TokInit ==
    /\ mode = "interactive"
    /\ pc = "tokenize"
    /\ exit = "running"
    /\ fatal = "none"
    /\ file = <<>>
    /\ processed = <<>>
    /\ filter = NoFilter
    /\ last = NoLine
    /\ typed = <<>>
    /\ tok_in \in TokInputs
    /\ tok_out = NoTokOut
    /\ calls = <<>>
    /\ relex = NoRelex
    /\ walk = NoWalk
    /\ comp = NoCompletion
    /\ named = NoNamed

Tokenize ==
    /\ pc = "tokenize"
    /\ \E env \in EnvsFor(tok_in.input) :
        LET t == CommandTokenizer_new(tok_in.input, tok_in.cmd_name, env) IN
        tok_out' = [done |-> TRUE, res |-> t.res, tokens |-> t.tokens]
    /\ pc' = "tokenized"
    /\ UNCHANGED <<mode, exit, fatal, file, processed, filter, last, typed, tok_in,
                   calls, relex, walk, comp, named>>

TokNext == Tokenize

TokSpec == TokInit /\ [][TokNext]_vars

(***************************************************************************)
(* DerefSpec: CommandTokenizer::new on lines whose words may start with a  *)
(* dereference prefix.  Init draws the input and the command name; each    *)
(* step is one call, made in a world (what the file holds, what the GET    *)
(* returns) that the call does not choose, so that two calls on the same   *)
(* input may see different worlds.                                         *)
(***************************************************************************)
\* The longest line, in words, given to the tokenizer in DerefSpec.
MaxDerefWords == 3

U_http == P_http \o <<"u">>
U_https == P_https \o <<"u">>
U_file == P_file \o <<"p">>
\* A word that only resembles a dereference prefix.
U_near == <<"f", "i", "l", "e", ":", "/", "p">>

DerefWords == {W_list, W_x, O_n, U_http, U_https, U_file, U_near}

DerefInputs ==
    {[input |-> Join(ws, <<" ">>), cmd_name |-> c] :
        ws \in UNION {[1..k -> DerefWords] : k \in 0..MaxDerefWords},
        c \in {W_list, U_file}}

DerefInit ==
    /\ mode = "interactive"
    /\ pc = "deref"
    /\ exit = "running"
    /\ fatal = "none"
    /\ file = <<>>
    /\ processed = <<>>
    /\ filter = NoFilter
    /\ last = NoLine
    /\ typed = <<>>
    /\ tok_in \in DerefInputs
    /\ tok_out = NoTokOut
    /\ calls = <<>>
    /\ relex = NoRelex
    /\ walk = NoWalk
    /\ comp = NoCompletion
    /\ named = NoNamed

\* What a caller holds after CommandTokenizer::new returned t in the world env.
called(env, t) == [env |-> env, res |-> t.res, tokens |-> t.tokens]

TokenizeInWorld ==
    /\ pc = "deref"
    /\ Len(calls) < 2
    /\ \E env \in Envs :
        calls' = Append(calls,
                        called(env, CommandTokenizer_new(tok_in.input, tok_in.cmd_name, env)))
    /\ UNCHANGED <<mode, pc, exit, fatal, file, processed, filter, last, typed, tok_in,
                   tok_out, relex, walk, comp, named>>

DerefNext == TokenizeInWorld

DerefSpec == DerefInit /\ [][DerefNext]_vars

(***************************************************************************)
(* LexSpec: shlex::split on a line, and again on its words joined with     *)
(* single spaces.  Init draws the line from the texts over a letter, the   *)
(* blank, the two quotes, the backslash and the comment sign.              *)
(***************************************************************************)
\* The longest line, in characters, lexed in LexSpec.
MaxLineLen == 5

LexChars == {"a", " ", "'", "\"", "\\", "#"}

LexLines == UNION {[1..k -> LexChars] : k \in 0..MaxLineLen}

LexInit ==
    /\ mode = "interactive"
    /\ pc = "lex"
    /\ exit = "running"
    /\ fatal = "none"
    /\ file = <<>>
    /\ processed = <<>>
    /\ filter = NoFilter
    /\ last = NoLine
    /\ typed \in LexLines
    /\ tok_in = NoTokIn
    /\ tok_out = NoTokOut
    /\ calls = <<>>
    /\ relex = NoRelex
    /\ walk = NoWalk
    /\ comp = NoCompletion
    /\ named = NoNamed

\* The words of a line, and the words of those words joined.
lexed_twice(first) ==
    [done |-> TRUE, first |-> first, again |-> ShlexSplit(Join(first.words, <<" ">>))]

LexAndRelex ==
    /\ pc = "lex"
    /\ relex' = lexed_twice(ShlexSplit(typed))
    /\ pc' = "lexed"
    /\ UNCHANGED <<mode, exit, fatal, file, processed, filter, last, typed, tok_in,
                   tok_out, calls, walk, comp, named>>

LexNext == LexAndRelex

LexSpec == LexInit /\ [][LexNext]_vars

(***************************************************************************)
(* WalkSpec: find_command as a function of the tree and the words.  The    *)
(* trees are the example tree; a tree whose names recur at several levels  *)
(* (list is a command of the root and a scope of ns); and a tree in which  *)
(* ns is both a scope and a command of the root, which the specification's *)
(* construction-time invariant excludes and find_command does not test.    *)
(***************************************************************************)
\* The longest word list given to find_command in WalkSpec.
MaxParts == 4

cli_nested ==
    [scopes |-> (W_ns :>
        [scopes |-> (W_list :> [scopes |-> NoScopes, commands |-> {W_status, W_x}]),
         commands |-> {W_status}]),
     commands |-> {W_list, W_status}]

cli_colliding ==
    [scopes |-> (W_ns :> [scopes |-> NoScopes, commands |-> {W_list}]),
     commands |-> {W_ns, W_status}]

WalkTrees == {cli, cli_nested, cli_colliding}

WalkWords == {W_ns, W_list, W_status, W_x, W_bogus}

WalkInit ==
    /\ mode = "interactive"
    /\ pc = "walk"
    /\ exit = "running"
    /\ fatal = "none"
    /\ file = <<>>
    /\ processed = <<>>
    /\ filter = NoFilter
    /\ last = NoLine
    /\ typed = <<>>
    /\ tok_in = NoTokIn
    /\ tok_out = NoTokOut
    /\ calls = <<>>
    /\ relex = NoRelex
    /\ \E tree \in WalkTrees, k \in 0..MaxParts :
          \E parts \in [1..k -> WalkWords] :
              walk = [NoWalk EXCEPT !.tree = tree, !.parts = parts]
    /\ comp = NoCompletion
    /\ named = NoNamed

\* What the caller of find_command holds after it returned f.
walked_to(w, f) ==
    [w EXCEPT !.done = TRUE, !.res = f.res, !.context = f.context,
              !.found = f.found, !.cmd_name = f.cmd_name]

Walk ==
    /\ pc = "walk"
    /\ walk' = walked_to(walk, find_command(walk.tree, walk.parts))
    /\ pc' = "walked"
    /\ UNCHANGED <<mode, exit, fatal, file, processed, filter, last, typed, tok_in,
                   tok_out, calls, relex, comp, named>>

WalkNext == Walk

WalkSpec == WalkInit /\ [][WalkNext]_vars

(***************************************************************************)
(* CompleteSpec: the autocomplete providers (autocomplete.rs).  Init draws *)
(* the prefix, the typed words and the answers of the remote API; one      *)
(* action per provider calls it.  The remote API is outside the core: a    *)
(* list request fails or returns some names, a lookup by exact name fails  *)
(* or matches some number of classes.                                      *)
(***************************************************************************)
MaxTyped == 3

A_class == <<"-", "-", "c", "l", "a", "s", "s">>
A_class_from == A_class \o <<"_", "f", "r", "o", "m">>
A_class_to == A_class \o <<"_", "t", "o">>

CompleteWords == {A_class, A_class_from, A_class_to, <<"c">>, <<"d">>}
Prefixes == {<<>>, <<"a">>}

ListAnswers ==
    { [ok |-> FALSE, names |-> <<>>],
      [ok |-> TRUE, names |-> <<>>],
      [ok |-> TRUE, names |-> <<<<"a">>>>],
      [ok |-> TRUE, names |-> <<<<"a">>, <<"a", "b">>>>] }
LookupAnswers ==
    {[ok |-> FALSE, count |-> 0]} \cup {[ok |-> TRUE, count |-> n] : n \in 0..2}
Worlds == [list : ListAnswers, lookup : LookupAnswers]

\* A request sent to the remote API: the resource listed, the class whose
\* objects are listed, and the filters added.
Query(kind, of, filters) == [kind |-> kind, of |-> of, filters |-> filters]
\* `if !prefix.is_empty() { cmd.add_filter("name", StartsWith, prefix) }`
starts_with(prefix) ==
    IF prefix # <<>> THEN <<[op |-> "StartsWith", value |-> prefix]>> ELSE <<>>
\* The match on cmd.execute(): the names of what was returned, or nothing.
names_or_empty(answer) == IF answer.ok THEN answer.names ELSE <<>>

classes(prefix, parts, world) ==
    [queries |-> <<Query("classes", <<>>, starts_with(prefix))>>,
     candidates |-> names_or_empty(world.list)]

namespaces(prefix, parts, world) ==
    [queries |-> <<Query("namespaces", <<>>, starts_with(prefix))>>,
     candidates |-> names_or_empty(world.list)]

\* execute_expecting_single_result: Ok when the request succeeds and matches
\* exactly one class.
execute_expecting_single_result(answer) ==
    IF answer.ok /\ answer.count = 1 THEN Ok ELSE Err("ApiError", <<>>)

\* find_window taking the last pair of words that starts with source.
find_last_window(parts, source) ==
    IF \E i \in 1..(Len(parts) - 1) : parts[i] = source
    THEN CHOOSE i \in 1..(Len(parts) - 1) :
            parts[i] = source /\ \A j \in (i + 1)..(Len(parts) - 1) : parts[j] # source
    ELSE 0

\* parts.windows(2).find(|w| w[0] == source): the place of the first pair of
\* neighbouring words whose first is source (0: None).
find_window(parts, source) ==
    IF \E i \in 1..(Len(parts) - 1) : parts[i] = source
    THEN CHOOSE i \in 1..(Len(parts) - 1) :
            parts[i] = source /\ \A j \in 1..(i - 1) : parts[j] # source
    ELSE 0

\* class_then_objects asking for the class a second time when the first
\* request failed.
class_then_objects_retrying(prefix, classname, world) ==
    LET lookup == Query("classes", <<>>, <<[op |-> "Equals", value |-> classname]>>) IN
    IF execute_expecting_single_result(world.lookup) # Ok
    THEN [queries |-> <<lookup, lookup>>, candidates |-> <<>>]
    ELSE [queries |-> <<lookup, Query("objects", classname, starts_with(prefix))>>,
          candidates |-> names_or_empty(world.list)]

\* The part of objects_from_class_source after the class name was found
\* among the typed words.
class_then_objects(prefix, classname, world) ==
    LET lookup == Query("classes", <<>>, <<[op |-> "Equals", value |-> classname]>>) IN
    IF execute_expecting_single_result(world.lookup) # Ok
    THEN [queries |-> <<lookup>>, candidates |-> <<>>]
    ELSE [queries |-> <<lookup, Query("objects", classname, starts_with(prefix))>>,
          candidates |-> names_or_empty(world.list)]

\* The part of objects_from_class_source after windows(2).find returned w.
window_found(prefix, parts, w, world) ==
    IF w = 0 THEN [queries |-> <<>>, candidates |-> <<>>]
    ELSE class_then_objects(prefix, parts[w + 1], world)

objects_from_class_source(prefix, parts, source, world) ==
    window_found(prefix, parts, find_window(parts, source), world)

objects_from_class(prefix, parts, world) ==
    objects_from_class_source(prefix, parts, A_class, world)

objects_from_class_from(prefix, parts, world) ==
    objects_from_class_source(prefix, parts, A_class_from, world)

objects_from_class_to(prefix, parts, world) ==
    objects_from_class_source(prefix, parts, A_class_to, world)

CompleteInit ==
    /\ mode = "interactive"
    /\ pc = "complete"
    /\ exit = "running"
    /\ fatal = "none"
    /\ file = <<>>
    /\ processed = <<>>
    /\ filter = NoFilter
    /\ last = NoLine
    /\ typed = <<>>
    /\ tok_in = NoTokIn
    /\ tok_out = NoTokOut
    /\ calls = <<>>
    /\ relex = NoRelex
    /\ walk = NoWalk
    /\ \E prefix \in Prefixes, world \in Worlds, k \in 0..MaxTyped :
          \E parts \in [1..k -> CompleteWords] :
              comp = [NoCompletion EXCEPT !.prefix = prefix, !.parts = parts,
                                          !.world = world]
    /\ named = NoNamed

\* The provider returned r to the completer.
completed(provider, r) ==
    /\ pc = "complete"
    /\ comp' = [comp EXCEPT !.done = TRUE, !.provider = provider,
                            !.queries = r.queries, !.candidates = r.candidates]
    /\ pc' = "completed"
    /\ UNCHANGED <<mode, exit, fatal, file, processed, filter, last, typed, tok_in,
                   tok_out, calls, relex, walk, named>>

Classes == completed("classes", classes(comp.prefix, comp.parts, comp.world))

Namespaces == completed("namespaces", namespaces(comp.prefix, comp.parts, comp.world))

ObjectsFromClass ==
    completed("objects_from_class",
              objects_from_class(comp.prefix, comp.parts, comp.world))

ObjectsFromClassFrom ==
    completed("objects_from_class_from",
              objects_from_class_from(comp.prefix, comp.parts, comp.world))

ObjectsFromClassTo ==
    completed("objects_from_class_to",
              objects_from_class_to(comp.prefix, comp.parts, comp.world))

CompleteNext ==
    \/ Classes
    \/ Namespaces
    \/ ObjectsFromClass
    \/ ObjectsFromClassFrom
    \/ ObjectsFromClassTo

CompleteSpec == CompleteInit /\ [][CompleteNext]_vars

(***************************************************************************)
(* NameSpec: the commands that take their entity's name as an option or    *)
(* as a positional (commands/class.rs, object.rs, user.rs), up to the name *)
(* they go on with.  Init draws the name and class fields of the query     *)
(* that new_from_tokens made of the options, and the positionals; one      *)
(* action per command.  The remote calls that follow are not part of it.   *)
(***************************************************************************)
MaxPositionals == 2

None == <<>>
Some(v) == <<v>>

K_name == <<"n", "a", "m", "e">>
K_username == <<"u", "s", "e", "r", "n", "a", "m", "e">>
K_class == <<"c", "l", "a", "s", "s">>

PositionalWords == {<<"p">>, <<"q">>}

\* The body shared by classname_or_pos, objectname_or_pos and
\* username_or_pos, which differ in the option they name in the error.
name_or_pos(name, positionals, pos, option) ==
    IF name = None THEN
        IF pos + 1 > Len(positionals)
        THEN [res |-> Err("MissingOptions", <<option>>), value |-> None]
        ELSE [res |-> Ok, value |-> Some(positionals[pos + 1])]
    ELSE [res |-> Ok, value |-> name]

classname_or_pos(classname, positionals, pos) ==
    name_or_pos(classname, positionals, pos, K_name)

objectname_or_pos(objectname, positionals, pos) ==
    name_or_pos(objectname, positionals, pos, K_name)

username_or_pos(username, positionals, pos) ==
    name_or_pos(username, positionals, pos, K_username)

\* ObjectDelete::execute after objectname_or_pos returned r: the class
\* option is required.
class_required(class, r) ==
    IF r.res # Ok THEN r
    ELSE IF class = None THEN [res |-> Err("MissingOptions", <<K_class>>), value |-> r.value]
    ELSE r

NameInit ==
    /\ mode = "interactive"
    /\ pc = "execute"
    /\ exit = "running"
    /\ fatal = "none"
    /\ file = <<>>
    /\ processed = <<>>
    /\ filter = NoFilter
    /\ last = NoLine
    /\ typed = <<>>
    /\ tok_in = NoTokIn
    /\ tok_out = NoTokOut
    /\ calls = <<>>
    /\ relex = NoRelex
    /\ walk = NoWalk
    /\ comp = NoCompletion
    /\ \E name \in {None, Some(<<"o">>)}, class \in {None, Some(<<"c">>)},
          k \in 0..MaxPositionals :
          \E positionals \in [1..k -> PositionalWords] :
              named = [NoNamed EXCEPT !.name = name, !.class = class,
                                      !.positionals = positionals]

\* The command went on with the name r.value, or returned r's error.
name_set(command, r) ==
    /\ pc = "execute"
    /\ named' = [named EXCEPT !.done = TRUE, !.command = command,
                              !.res = r.res, !.resolved = r.value]
    /\ pc' = "executed"
    /\ UNCHANGED <<mode, exit, fatal, file, processed, filter, last, typed, tok_in,
                   tok_out, calls, relex, walk, comp>>

ClassInfo == name_set("class info", classname_or_pos(named.name, named.positionals, 0))

ClassDelete == name_set("class delete", classname_or_pos(named.name, named.positionals, 0))

ObjectInfo == name_set("object info", objectname_or_pos(named.name, named.positionals, 0))

ObjectDelete ==
    name_set("object delete",
             class_required(named.class,
                            objectname_or_pos(named.name, named.positionals, 1)))

UserInfo == name_set("user info", username_or_pos(named.name, named.positionals, 0))

UserDelete == name_set("user delete", username_or_pos(named.name, named.positionals, 0))

NameNext ==
    \/ ClassInfo
    \/ ClassDelete
    \/ ObjectInfo
    \/ ObjectDelete
    \/ UserInfo
    \/ UserDelete

NameSpec == NameInit /\ [][NameNext]_vars

(***************************************************************************)
(* The claims.                                                             *)
(***************************************************************************)
\* A word that introduces an option, and the key it names.
IsOption(w) == StartsWith(w, <<"-">>)
OptionKey(w) ==
    IF StartsWith(w, <<"-", "-">>) THEN StripPrefix(w, <<"-", "-">>)
    ELSE StripPrefix(w, <<"-">>)

\* The words of the tokenizer's input, and whether the command word stands
\* before the i-th of them.
TokWords == ShlexSplit(tok_in.input).words
AfterCommand(i) == \E c \in 1..(i - 1) : TokWords[c] = tok_in.cmd_name

\* The words handed to the dispatcher for the line processed last.
TypedWords == ShlexSplit(last.text).words

NotBlank(ch) == ~IsSpace(ch)
NoBlanks(s) == SelectSeq(s, NotBlank)
AllBlank(s) == \A i \in 1..Len(s) : IsSpace(s[i])
Trimmed(s) == s = <<>> \/ (NotBlank(s[1]) /\ NotBlank(s[Len(s)]))
IsInfix(t, s) == \E i \in 0..(Len(s) - Len(t)) : SubSeq(s, i + 1, i + Len(t)) = t
Pipes(s) == {i \in 1..Len(s) : s[i] = "|"}
BeforePipe(s) == SubSeq(s, 1, (CHOOSE i \in Pipes(s) : TRUE) - 1)
AfterPipe(s) == SubSeq(s, (CHOOSE i \in Pipes(s) : TRUE) + 1, Len(s))

\* C1: when the same option key is supplied twice after the command word
\* (key, value, the same key again), CommandTokenizer::new fails with the
\* duplicate-option error and returns no OptionMap holding either value.
C1_DuplicateOptionRejected ==
    (/\ tok_out.done
     /\ \E i \in 1..(Len(TokWords) - 2) :
            /\ AfterCommand(i)
            /\ IsOption(TokWords[i])
            /\ OptionKey(TokWords[i]) # <<>>
            /\ ~IsOption(TokWords[i + 1])
            /\ IsOption(TokWords[i + 2])
            /\ OptionKey(TokWords[i]) = OptionKey(TokWords[i + 2]))
        => /\ tok_out.res.kind = "DuplicateOptions"
           /\ tok_out.tokens.options = NoOptions

\* C2: for a line that resolves to a command, if the word --help or -h stands
\* after the command word then the command's help is invoked, whatever other
\* options the line holds and wherever they stand.
C2_HelpWordSelectsHelp ==
    (/\ pc = "dispatched"
     /\ last.found
     /\ \E i \in (Len(last.context) + 2)..Len(TypedWords) :
            TypedWords[i] \in {O_h, O_help})
        => last.call = "help"

\* C3: with the tree root -> {scope ns -> {command list}, command status}, the
\* words [ns, list, -n, x] give the scope path [ns], the command list and the
\* options {n: x}; [status] gives an empty scope path and the command status;
\* [bogus] gives CommandNotFound.
C3_ExampleTreeResolution ==
    pc = "dispatched" =>
        /\ TypedWords = <<W_ns, W_list, O_n, W_x>> =>
              /\ last.found
              /\ last.context = <<W_ns>>
              /\ last.cmd_name = W_list
              /\ last.tokens.scopes = <<W_ns>>
              /\ last.tokens.command = W_list
              /\ last.tokens.options = (<<"n">> :> W_x)
              /\ last.tokens.positionals = <<>>
        /\ TypedWords = <<W_status>> =>
              /\ last.found
              /\ last.context = <<>>
              /\ last.cmd_name = W_status
        /\ TypedWords = <<W_bogus>> =>
              /\ ~last.found
              /\ last.call = "none"
              /\ last.messages = <<Message("error", "CommandNotFound", W_bogus)>>

\* C3's case: the line `ns list -n x` was dispatched and reached execute.
C3_Witness ==
    /\ pc = "dispatched"
    /\ TypedWords = <<W_ns, W_list, O_n, W_x>>
    /\ last.call = "execute"

\* C4: once the batch source is open its lines are processed in file order,
\* and nothing but an I/O error reading the source keeps a line of it from
\* being processed.
C4_BatchProcessesEveryLine ==
    /\ processed = [i \in 1..Len(processed) |-> i]
    /\ (mode = "source" /\ pc = "done"
            /\ fatal \notin {"create_editor", "open_source", "read_source"})
        => Len(processed) = Len(file)

\* C5: the process ends with failure only when the batch source cannot be
\* opened or read or the interactive editor cannot be initialised.
C5_OnlySetupFailuresAreFatal ==
    exit = "failure" => fatal \in {"create_editor", "open_source", "read_source"}

\* C6: an empty or whitespace-only line is a no-op: the tree is not walked,
\* no command is called, no message is added, and the line succeeds.
C6_BlankLineIsNoOp ==
    (pc # "interactive" /\ AllBlank(typed)) =>
        /\ pc = "dispatched"
        /\ last.res = Ok
        /\ last.handed
        /\ ~last.walked
        /\ last.call = "none"
        /\ last.messages = <<>>

\* C6's case: a line of blanks only was processed.
C6_Witness ==
    /\ pc = "dispatched"
    /\ typed = <<" ", " ", " ">>
    /\ last.line = typed

\* C7: for a line `<command text> | <pattern>` or `<command text> | !<pattern>`
\* the lexer is handed the command text without the blanks around it, and the
\* filter requested is the pattern without the blanks around it, inverted
\* exactly when a `!` introduces the pattern.
C7_FilterSuffixExtracted ==
    (pc # "interactive" /\ Cardinality(Pipes(typed)) = 1) =>
        LET rq == last.request
            suffix == NoBlanks(AfterPipe(typed))
        IN  /\ rq.set
            /\ rq.invert = (suffix # <<>> /\ suffix[1] = "!")
            /\ Trimmed(rq.pattern)
            /\ IsInfix(rq.pattern, AfterPipe(typed))
            /\ suffix = (IF rq.invert THEN <<"!">> ELSE <<>>) \o NoBlanks(rq.pattern)
            /\ last.handed =>
                  /\ Trimmed(last.text)
                  /\ IsInfix(last.text, BeforePipe(typed))
                  /\ NoBlanks(BeforePipe(typed)) = NoBlanks(last.text)
                  /\ filter = [active |-> TRUE, pattern |-> rq.pattern,
                               invert |-> rq.invert]
            /\ typed = W_list \o <<" ", "|", " ", "!">> \o W_error =>
                  /\ rq.pattern = W_error
                  /\ rq.invert
                  /\ last.handed => last.text = W_list

\* C7's case: `list | !error` was processed with its filter installed.
C7_Witness ==
    /\ pc = "dispatched"
    /\ typed = W_list \o <<" ", "|", " ", "!">> \o W_error
    /\ last.text = W_list
    /\ filter = [active |-> TRUE, pattern |-> W_error, invert |-> TRUE]

\* C8: a `-`-prefixed word that stands before the command name makes
\* CommandTokenizer::new fail (AppError::InvalidInput) and return no
\* tokenizer: no scopes, no options, no positionals.
C8_OptionBeforeCommandFails ==
    (/\ tok_out.done
     /\ \E i \in 1..Len(TokWords) : IsOption(TokWords[i]) /\ ~AfterCommand(i))
        => /\ tok_out.res = Err("InvalidInput", <<>>)
           /\ tok_out.tokens = NoTokens

\* C8's case: `ns -n list` was tokenized for the command list.
C8_Witness ==
    /\ tok_out.done
    /\ tok_in.cmd_name = W_list
    /\ TokWords = <<W_ns, O_n, W_list>>
    /\ tok_out.res.kind = "InvalidInput"

\* C9: a bare `-` or `--` after the command word is rejected with
\* InvalidOption, and no successful tokenization leaves a zero-length key in
\* the OptionMap.
C9_BareDashRejected ==
    tok_out.done =>
        /\ (\E i \in 1..Len(TokWords) :
                AfterCommand(i) /\ TokWords[i] \in {O_dash, O_ddash})
            => tok_out.res.kind = "InvalidOption"
        /\ tok_out.res = Ok => ~contains_key(tok_out.tokens.options, <<>>)

\* C10: after the command word every `-`-prefixed word becomes a key of the
\* OptionMap, its prefix stripped: none is consumed as the value of the key
\* before it.  Stated for inputs whose `-`-prefixed words all name a key
\* (no bare `-` or `--`).
C10_EveryDashWordIsAKey ==
    (/\ tok_out.done
     /\ tok_out.res = Ok
     /\ \A j \in 1..Len(TokWords) : TokWords[j] \notin {O_dash, O_ddash})
        => \A i \in 1..Len(TokWords) :
               (AfterCommand(i) /\ IsOption(TokWords[i]))
                   => contains_key(tok_out.tokens.options, OptionKey(TokWords[i]))

\* The place of the first `-`-prefixed word among ws (0: there is none), and
\* the places where the tokenizer then expects a key: that one and every
\* second place after it.
FirstOption(ws) ==
    IF \E i \in 1..Len(ws) : IsOption(ws[i])
    THEN CHOOSE i \in 1..Len(ws) :
            IsOption(ws[i]) /\ \A j \in 1..(i - 1) : ~IsOption(ws[j])
    ELSE 0
KeyPlaces(ws) ==
    IF FirstOption(ws) = 0 THEN {}
    ELSE {i \in FirstOption(ws)..Len(ws) : (i - FirstOption(ws)) % 2 = 0}
\* The place of the first word of ws that is the command name (0: none).
CommandPlace(ws, cmd_name) ==
    IF \E i \in 1..Len(ws) : ws[i] = cmd_name
    THEN CHOOSE i \in 1..Len(ws) :
            ws[i] = cmd_name /\ \A j \in 1..(i - 1) : ws[j] # cmd_name
    ELSE 0

\* C11: on a line whose options stand after the command word as keys each
\* followed by a value, a key that is the last word of the line is stored
\* with the empty string as its value and the tokenization succeeds.
C11_DanglingKeyIsEmpty ==
    (/\ tok_out.done
     /\ FirstOption(TokWords) > 0
     /\ AfterCommand(FirstOption(TokWords))
     /\ Len(TokWords) \in KeyPlaces(TokWords)
     /\ \A i \in KeyPlaces(TokWords) : IsOption(TokWords[i]))
        => /\ tok_out.res = Ok
           /\ contains_key(tok_out.tokens.options, OptionKey(TokWords[Len(TokWords)]))
           /\ tok_out.tokens.options[OptionKey(TokWords[Len(TokWords)])] = <<>>

\* C11's case: `list -h x -n` was tokenized; n has no word after it.
C11_Witness ==
    /\ tok_out.done
    /\ tok_in.cmd_name = W_list
    /\ TokWords = <<W_list, O_h, W_x, O_n>>
    /\ tok_out.res = Ok
    /\ tok_out.tokens.options = (<<"h">> :> W_x) @@ (<<"n">> :> <<>>)

\* C12: after a successful tokenization the PositionalList holds exactly the
\* words that stand after the command word and before the first `-`-prefixed
\* word, whatever their text, in the order of the line.
C12_PositionalsAreTheBareWords ==
    (/\ tok_out.done
     /\ tok_out.res = Ok
     /\ CommandPlace(TokWords, tok_in.cmd_name) > 0)
        => tok_out.tokens.positionals =
              SubSeq(TokWords, CommandPlace(TokWords, tok_in.cmd_name) + 1,
                     IF FirstOption(TokWords) = 0 THEN Len(TokWords)
                     ELSE FirstOption(TokWords) - 1)

\* A word that starts with a dereference prefix.
IsDeref(w) == StartsWith(w, P_http) \/ StartsWith(w, P_https) \/ StartsWith(w, P_file)
IsUrl(w) == StartsWith(w, P_http) \/ StartsWith(w, P_https)
\* The words ws, whose first `-`-prefixed word stands at f, end with one
\* option after the command word: a key at f and its value.
OneOption(ws, f, cmd_name) ==
    /\ f > 0
    /\ f = Len(ws) - 1
    /\ \E c \in 1..(f - 1) : ws[c] = cmd_name
\* No word the tokenizer takes as an option value (every second word after
\* f) starts with a dereference prefix.
NoValueDeref(ws, f) ==
    f = 0 \/ \A i \in (f + 1)..Len(ws) : (i - f) % 2 = 1 => ~IsDeref(ws[i])
\* v is the text with its trailing whitespace, and nothing else, removed.
IsTrailTrim(v, text) ==
    /\ Len(v) <= Len(text)
    /\ v = SubSeq(text, 1, Len(v))
    /\ AllBlank(SubSeq(text, Len(v) + 1, Len(text)))
    /\ v = <<>> \/ NotBlank(v[Len(v)])
\* The bare words of ws the first loop files as scopes or positionals.
BareWords(ws, f, cmd_name) ==
    SelectSeq(SubSeq(ws, 1, IF f = 0 THEN Len(ws) ELSE f - 1),
              LAMBDA w : w # cmd_name)

\* C13 for one call on the words ws with the first option at f.
DereferencedValuesOnly(call, ws, f, cmd_name) ==
    /\ (OneOption(ws, f, cmd_name) /\ ~IsDeref(ws[f + 1])) =>
          /\ call.res = Ok
          /\ call.tokens.options = (OptionKey(ws[f]) :> ws[f + 1])
    /\ (OneOption(ws, f, cmd_name) /\ IsDeref(ws[f + 1]) /\ call.res = Ok) =>
          call.tokens.options[OptionKey(ws[f])] # ws[f + 1]
    /\ call.res = Ok =>
          /\ call.tokens.scopes \o call.tokens.positionals = BareWords(ws, f, cmd_name)
          /\ call.tokens.command \in {<<>>, cmd_name}
    /\ NoValueDeref(ws, f) => call.res.kind \notin {"HttpError", "IoError"}

\* C13: dereferencing touches option values only.  In every call, a value
\* that starts with none of the prefixes is stored as typed and a value that
\* starts with one is not; scopes, command and positionals are stored as
\* lexed whatever they start with; and when no option value starts with a
\* prefix the call fails with neither the network nor the I/O error, whatever
\* the world holds.
C13_OnlyOptionValuesAreDereferenced ==
    calls # <<>> =>
        LET ws == TokWords
            f == FirstOption(ws)
        IN  \A n \in 1..Len(calls) :
                DereferencedValuesOnly(calls[n], ws, f, tok_in.cmd_name)

\* C13's case: `file://p list http://u` was tokenized for the command list
\* in a world where the file is missing and the GET fails.
C13_Witness ==
    /\ Len(calls) > 0
    /\ tok_in.cmd_name = W_list
    /\ tok_in.input = Join(<<U_file, W_list, U_http>>, <<" ">>)
    /\ ~calls[1].env.file.ok
    /\ ~calls[1].env.http.ok
    /\ calls[1].res = Ok
    /\ calls[1].tokens.scopes = <<U_file>>
    /\ calls[1].tokens.positionals = <<U_http>>

\* C14 for one call whose one option, keyed key, has a URL for its value.
FetchedOnSuccessOnly(call, key) ==
    IF call.env.http.ok /\ call.env.http.status \in 200..299
    THEN /\ call.res = Ok
         /\ IsTrailTrim(call.tokens.options[key], call.env.http.text)
    ELSE /\ call.res.kind = "HttpError"
         /\ call.tokens = NoTokens

\* C14: an http:// or https:// option value resolves to the trimmed body
\* exactly when the GET succeeds with a success status; a transport failure
\* or any other status fails with HttpError and stores nothing.
C14_HttpValueNeedsSuccessStatus ==
    calls # <<>> =>
        LET ws == TokWords
            f == FirstOption(ws)
        IN  (OneOption(ws, f, tok_in.cmd_name) /\ IsUrl(ws[f + 1])) =>
                \A n \in 1..Len(calls) : FetchedOnSuccessOnly(calls[n], OptionKey(ws[f]))

\* C15 for one call whose one option, keyed key, has a file reference for
\* its value.
ReadAndTrailTrimmed(call, key) ==
    IF call.env.file.ok
    THEN /\ call.res = Ok
         /\ DOMAIN call.tokens.options = {key}
         /\ IsTrailTrim(call.tokens.options[key], call.env.file.text)
         /\ call.env.file.text = <<"h", "i", "\n">> =>
                call.tokens.options[key] = <<"h", "i">>
         /\ call.env.file.text = <<" ", "h", " ", "i", " ", "\n">> =>
                call.tokens.options[key] = <<" ", "h", " ", "i">>
    ELSE /\ call.res.kind = "IoError"
         /\ call.tokens = NoTokens

\* C15: a file:// option value resolves to the text of the file with its
\* trailing whitespace, and only that, removed (`hi` and a newline give
\* `hi`; leading and interior blanks are kept); a missing or unreadable file
\* fails the tokenization with IoError.
C15_FileValueIsTrailTrimmedText ==
    calls # <<>> =>
        LET ws == TokWords
            f == FirstOption(ws)
        IN  (OneOption(ws, f, tok_in.cmd_name) /\ StartsWith(ws[f + 1], P_file)) =>
                \A n \in 1..Len(calls) : ReadAndTrailTrimmed(calls[n], OptionKey(ws[f]))

\* C15's case: `list -n file://p` was tokenized where the file holds
\* blanks before, inside and after its text.
C15_Witness ==
    /\ Len(calls) > 0
    /\ tok_in.input = Join(<<W_list, O_n, U_file>>, <<" ">>)
    /\ tok_in.cmd_name = W_list
    /\ calls[1].env.file.text = <<" ", "h", " ", "i", " ", "\n">>
    /\ calls[1].tokens.options = (<<"n">> :> <<" ", "h", " ", "i">>)

\* The walk over the words handed on for the line processed last.
TypedWalk == find_command(cli, TypedWords)

\* C16: when the walk meets a word that is neither a child scope nor a child
\* command of the current scope, the line adds one warning-level message
\* that names the word, no command is called, and the line returns Ok so
\* that the REPL goes on.
C16_UnknownWordIsAWarning ==
    (/\ pc = "dispatched"
     /\ last.walked
     /\ TypedWalk.res.kind = "CommandNotFound")
        => /\ last.res = Ok
           /\ last.call = "none"
           /\ last.messages = <<Message("warning", "CommandNotFound", TypedWalk.res.arg)>>

\* A token that reads back as itself: not empty, no blank, quote or
\* backslash in it, no comment sign at its start.
PlainToken(w) ==
    /\ w # <<>>
    /\ w[1] # "#"
    /\ \A i \in 1..Len(w) : ~IsSpace(w[i]) /\ w[i] \notin {"'", "\"", "\\"}

\* C17 as stated: for every line that lexes (its quotes are balanced),
\* lexing the tokens joined with single spaces gives the same tokens.
C17_RelexGivesSameTokens ==
    (relex.done /\ relex.first.ok) => relex.again = relex.first

\* C17 amended: the same, for lines whose tokens are all plain.
C17_RelexGivesSamePlainTokens ==
    (/\ relex.done
     /\ relex.first.ok
     /\ \A i \in 1..Len(relex.first.words) : PlainToken(relex.first.words[i]))
        => relex.again = relex.first

\* C17's case: the line `'a' a`, whose quotes the lexer removes, was lexed
\* and its tokens a and a were joined and lexed again.
C17_Witness ==
    /\ relex.done
    /\ typed = <<"'", "a", "'", " ", "a">>
    /\ relex.first.words = <<<<"a">>, <<"a">>>>
    /\ relex.again.words = <<<<"a">>, <<"a">>>>

RECURSIVE IsPath(_, _)
\* Each name of the path is a child scope of the scope the names before it
\* lead to.
IsPath(tree, path) ==
    path = <<>> \/ (/\ Head(path) \in DOMAIN tree.scopes
                    /\ IsPath(tree.scopes[Head(path)], Tail(path)))
RECURSIVE ScopeAt(_, _)
\* The scope a path leads to.
ScopeAt(tree, path) ==
    IF path = <<>> THEN tree ELSE ScopeAt(tree.scopes[Head(path)], Tail(path))

\* The word at which the walk stopped, and the scope it stopped in.
StopWord == walk.parts[Len(walk.context) + 1]
StopScope == ScopeAt(walk.tree, walk.context)

\* C19: the context find_command returns is the longest run of leading words
\* that are scopes, each a child of the one before (a word that names both a
\* scope and a command is taken as the scope); the word after it, if it is a
\* command of the scope reached, is the command found; any other word gives
\* CommandNotFound carrying that word.
C19_WalkIsGreedy ==
    walk.done =>
        /\ Len(walk.context) <= Len(walk.parts)
        /\ walk.context = SubSeq(walk.parts, 1, Len(walk.context))
        /\ IsPath(walk.tree, walk.context)
        /\ IF Len(walk.context) = Len(walk.parts)
           THEN walk.res = Ok /\ ~walk.found
           ELSE /\ StopWord \notin DOMAIN StopScope.scopes
                /\ IF StopWord \in StopScope.commands
                   THEN walk.res = Ok /\ walk.found /\ walk.cmd_name = StopWord
                   ELSE walk.res = Err("CommandNotFound", StopWord) /\ ~walk.found

\* C19's case: [ns, list, status] was walked in the tree where ns names a
\* scope and a command of the root: ns was taken as the scope.
C19_Witness ==
    /\ walk.done
    /\ walk.tree = cli_colliding
    /\ walk.parts = <<W_ns, W_list, W_status>>
    /\ walk.context = <<W_ns>>
    /\ walk.cmd_name = W_list

\* C18 as stated: two calls with the same line and the same command name,
\* the first of which succeeds, return the same scopes, OptionMap and
\* PositionalList.
C18_SameInputSameTokens ==
    (Len(calls) = 2 /\ calls[1].res = Ok) =>
        /\ calls[2].res = Ok
        /\ calls[2].tokens = calls[1].tokens

\* C18 amended: two calls with the same line and the same command name
\* return the same result and the same tokens when they are made in the same
\* world, or when no option value of the line starts with a dereference
\* prefix.
C18_SameInputSameWorldSameTokens ==
    (/\ Len(calls) = 2
     /\ (calls[2].res # calls[1].res \/ calls[2].tokens # calls[1].tokens))
        => /\ calls[1].env # calls[2].env
           /\ ~NoValueDeref(TokWords, FirstOption(TokWords))

\* C18's case: `list -n file:/p`, whose value only resembles a file
\* reference, was tokenized twice, the file present at the first call and
\* missing at the second.
C18_Witness ==
    /\ Len(calls) = 2
    /\ tok_in.input = Join(<<W_list, O_n, U_near>>, <<" ">>)
    /\ tok_in.cmd_name = W_list
    /\ calls[1].env.file.ok
    /\ ~calls[2].env.file.ok
    /\ calls[2].tokens.options = (<<"n">> :> U_near)

\* The i-th character of s stands inside single quotes.
InQuotes(s, i) == Cardinality({j \in 1..(i - 1) : s[j] = "'"}) % 2 = 1
\* The filter suffix as process_filter understood it.
SuffixTaken ==
    IF last.request.set
    THEN <<"|">> \o (IF last.request.invert THEN <<"!">> ELSE <<>>)
                \o NoBlanks(last.request.pattern)
    ELSE <<>>

\* C20: only a trailing filter suffix is removed from a line.  Whenever a
\* text is handed to the lexer, that text and the filter taken account for
\* the whole line (blanks aside), and a line whose every `|` stands inside
\* quotes is handed on whole, with no filter taken.
C20_OnlyTrailingSuffixRemoved ==
    (pc = "dispatched" /\ last.handed) =>
        /\ NoBlanks(typed) = NoBlanks(last.text) \o SuffixTaken
        /\ (\A i \in Pipes(typed) : InQuotes(typed, i)) =>
              /\ last.text = typed
              /\ ~last.request.set

\* The words of the line processed last that stand after the word the walk
\* stopped at.
AfterStop == SubSeq(TypedWords, Len(last.context) + 2, Len(TypedWords))

\* C23: on every dispatched line that find_command resolved to a command and
\* that was tokenized, the scopes the tokenizer recorded are the scope path
\* the walk traversed, the command is the word the walk stopped at, and the
\* words after that word are the tokenizer's positionals (those before the
\* first `-`-prefixed word) and options (the words from there on).
C23_TokenizerAgreesWithWalk ==
    (pc = "dispatched" /\ last.found /\ last.call # "none") =>
        /\ last.tokens.scopes = last.context
        /\ last.tokens.command = last.cmd_name
        /\ TypedWords[Len(last.context) + 1] = last.cmd_name
        /\ last.tokens.positionals =
              SubSeq(AfterStop, 1,
                     IF FirstOption(AfterStop) = 0 THEN Len(AfterStop)
                     ELSE FirstOption(AfterStop) - 1)
        /\ DOMAIN last.tokens.options =
              {OptionKey(AfterStop[i]) : i \in KeyPlaces(AfterStop)}

\* CommandTokenizer::new for the line processed last, in the world env.
TypedTokens(env) == CommandTokenizer_new(last.text, last.cmd_name, env)
\* The tokenizer's failure was returned to process_line_as_command, which
\* added one message for it and flushed the output.
ReportedOnce(t) ==
    /\ t.res # Ok
    /\ last.tokens = NoTokens
    /\ last.messages = <<Message("error", t.res.kind, t.res.arg)>>
    /\ last.flushed
    /\ last.res = Ok

FilterOf(line, request) ==
    IF Pipes(line) # {}
    THEN /\ request.set
         /\ IsInfix(request.pattern, AfterPipe(line))
         /\ request.invert = (\E i \in 1..Len(line) : line[i] = "!")
         /\ filter = [active |-> TRUE, pattern |-> request.pattern,
                      invert |-> request.invert]
    ELSE /\ ~request.set
         /\ filter = NoFilter

\* C25: nothing of a line is left over for the next one.  After any sequence
\* of lines, once the last one was processed the output filter is the one
\* that line asks for by itself (its pattern and invert flag when it holds a
\* `|`, no filter when it holds none), whatever the lines before it set, and
\* the scope context its walk traversed is made of its own first words.
C25_NoStateLeaksBetweenLines ==
    last.handed =>
        /\ FilterOf(last.line, last.request)
        /\ last.walked =>
              last.context = SubSeq(TypedWords, 1, Len(last.context))

\* C25's case: a batch source whose first line, `x |!x`, set an inverted
\* filter and whose second line, `status`, has no suffix; both were
\* processed and no filter is left.
C25_Witness ==
    /\ mode = "source"
    /\ file = <<W_x \o <<" ", "|", "!", "x">>, W_status>>
    /\ processed = <<1, 2>>
    /\ last.line = W_status
    /\ last.found
    /\ last.context = <<>>
    /\ filter = NoFilter

\* The providers that list the objects of a class, and the token each one
\* looks for among the typed words.
ObjectProviders ==
    {"objects_from_class", "objects_from_class_from", "objects_from_class_to"}
Anchor ==
    CASE comp.provider = "objects_from_class_from" -> A_class_from
      [] comp.provider = "objects_from_class_to" -> A_class_to
      [] OTHER -> A_class
\* Whether the i-th request of the call failed: a list request that the API
\* did not answer, a class lookup that did not return exactly one class.
Failed(i) ==
    IF comp.queries[i].kind = "classes" /\ comp.provider \in ObjectProviders
    THEN ~(comp.world.lookup.ok /\ comp.world.lookup.count = 1)
    ELSE ~comp.world.list.ok

\* C21: every remote-backed provider returns a list in every world; when a
\* request it made failed the list is empty, the failed request is the last
\* one it made, and no request is made twice.
C21_FailureGivesNoCandidates ==
    comp.done =>
        /\ comp.candidates \in Seq(Seq({"a", "b"}))
        /\ \A i \in 1..Len(comp.queries) :
              Failed(i) => comp.candidates = <<>> /\ i = Len(comp.queries)
        /\ \A i, j \in 1..Len(comp.queries) :
              comp.queries[i] = comp.queries[j] => i = j

\* C21's case: objects_from_class was called with `--class c` typed and the
\* lookup of the class failed; one request was made and nothing returned.
C21_Witness ==
    /\ comp.done
    /\ comp.provider = "objects_from_class"
    /\ comp.parts = <<A_class, <<"c">>>>
    /\ ~comp.world.lookup.ok
    /\ Len(comp.queries) = 1
    /\ comp.candidates = <<>>

\* The place of the first anchor token among the typed words (0: absent).
AnchorPlace == CommandPlace(comp.parts, Anchor)
\* The call made a request for objects.
ObjectsQueried == \E i \in 1..Len(comp.queries) : comp.queries[i].kind = "objects"

\* C22: an object-scoped provider looks up the class named by the word that
\* follows the first anchor token among the typed words, and lists objects
\* only of that class and only after the lookup returned exactly one class.
\* When the anchor token is absent or is the last typed word no request is
\* made at all; when the lookup fails or does not return exactly one class
\* no objects are requested; in all three cases nothing is returned.
C22_ObjectsOnlyAfterAnchorResolved ==
    (comp.done /\ comp.provider \in ObjectProviders) =>
        /\ (AnchorPlace = 0 \/ AnchorPlace = Len(comp.parts)) =>
              comp.queries = <<>> /\ comp.candidates = <<>>
        /\ ~(comp.world.lookup.ok /\ comp.world.lookup.count = 1) =>
              ~ObjectsQueried /\ comp.candidates = <<>>
        /\ (AnchorPlace > 0 /\ AnchorPlace < Len(comp.parts)) =>
              /\ comp.queries # <<>>
              /\ comp.queries[1].kind = "classes"
              /\ comp.queries[1].filters[1].value = comp.parts[AnchorPlace + 1]
              /\ ObjectsQueried =>
                    /\ Len(comp.queries) = 2
                    /\ comp.queries[2].kind = "objects"
                    /\ comp.queries[2].of = comp.parts[AnchorPlace + 1]

\* C22's case: objects_from_class_to was called with `--class_to --class_to
\* c` typed; the class looked up is the word after the first anchor, `--class_to`.
C22_Witness ==
    /\ comp.done
    /\ comp.provider = "objects_from_class_to"
    /\ comp.parts = <<A_class_to, A_class_to, <<"c">>>>
    /\ comp.world.lookup.ok /\ comp.world.lookup.count = 1
    /\ comp.queries[1].filters[1].value = A_class_to
    /\ ObjectsQueried

\* The option that carries the name of the command's entity.
NameOption ==
    IF named.command \in {"user info", "user delete"} THEN K_username ELSE K_name

\* C26: each of class info, class delete, object info, object delete, user
\* info and user delete goes on with the value of its name option when the
\* option is supplied, with the first positional of the line when it is
\* not, and fails with MissingOptions naming that option exactly when
\* neither is there.
C26_NameOptionOrFirstPositional ==
    named.done =>
        /\ named.name # None => named.resolved = named.name
        /\ (named.name = None /\ named.positionals # <<>>) =>
              named.resolved = Some(named.positionals[1])
        /\ named.res = Err("MissingOptions", <<NameOption>>)
              <=> (named.name = None /\ named.positionals = <<>>)

=============================================================================
